---- MODULE Spec2Model ----
(***************************************************************************)
(* Model of the request-handling core of src/app.py: the sliding-window    *)
(* rate limiter, the per-user conversation memory, the response cache,     *)
(* the message classifier and AIService.get_response with its HTTP front   *)
(* chat_api.  Strings are TLA+ strings, time.time() is the integer clock   *)
(* `now` (seconds).                                                        *)
(***************************************************************************)
EXTENDS Integers, Sequences, FiniteSets, TLC

VARIABLES
    now,             \* the wall clock read by time.time()
    user_requests,   \* app.py:35   ip -> list of admitted timestamps
    user_memory,     \* app.py:36   user id -> deque(maxlen=5) of exchanges
    response_cache,  \* app.py:76   key -> <<timestamp, response>>
    threads,         \* request threads inside is_rate_limited (threaded=True)
    admitted,        \* history: ip -> every timestamp is_rate_limited admitted
    exchanges,       \* history: user id -> every exchange appended since the last clear
    last,            \* history: the operation that completed last, its result
    ncalls           \* number of operations performed so far

vars == <<now, user_requests, user_memory, response_cache, threads,
          admitted, exchanges, last, ncalls>>

----------------------------------------------------------------------------
(* Program constants *)

RATE_LIMIT_WINDOW == 60
RATE_LIMIT_MAX == 30
CACHE_DURATION == 300
MEMORY_MAXLEN == 5
MAX_MESSAGE_LEN == 5000
LONG_MESSAGE_LEN == 1000
MAX_WORD_LEN == 50

(* Bounds of the model *)

MaxTimeRL == 60      \* the clock of the rate-limiter specifications stops here
RLTick == 30         \* clock step of the rate-limiter specifications
RLOtherCalls == 2    \* calls made for the second client key
NThreads == 2        \* request threads running is_rate_limited concurrently
MaxConcCalls == 3    \* is_rate_limited calls started per concurrent behaviour
MaxCalls == 2        \* requests per behaviour of the chat specification
ChatTick == 300      \* clock step of the chat specification
MaxTimeChat == 300   \* the clock of the chat specification stops here
MaxMemOps == 7       \* operations per behaviour of the memory specification
MaxCacheOps == 4     \* operations per behaviour of the cache specification
CacheTick == 200     \* clock step of the cache specification
MaxTimeCache == 400  \* the clock of the cache specification stops here
MaxFill == 501       \* inserts per behaviour of the cache-fill specification

----------------------------------------------------------------------------
(* Generic helpers *)

\* dict[key] = value (insert or overwrite)
DictSet(d, k, v) == [x \in (DOMAIN d) \cup {k} |-> IF x = k THEN v ELSE d[x]]

\* defaultdict read: the stored value or the default
DictGet(d, k, default) == IF k \in DOMAIN d THEN d[k] ELSE default

EmptyDict == [x \in {} |-> 0]

NoOp == [op |-> "none"]

----------------------------------------------------------------------------
(* Python string operations *)

\* the characters str.strip() removes and the regex class \s matches
Whitespace == {" ", "\t", "\n", "\r", "\f"}

UpperLetters == "ABCDEFGHIJKLMNOPQRSTUVWXYZ"
LowerLetters == "abcdefghijklmnopqrstuvwxyz"
Digits == "0123456789"

CharAt(s, i) == SubSeq(s, i, i)

\* the characters of string s, as a set
CharsOf(s) == {CharAt(s, i) : i \in 1..Len(s)}

\* the regex class \w
WordChars == CharsOf(UpperLetters) \cup CharsOf(LowerLetters)
                 \cup CharsOf(Digits) \cup {"_"}

UpperSet == CharsOf(UpperLetters)
LowerSet == CharsOf(LowerLetters)

\* the lower-case and upper-case forms of the letters
LowerMap ==
    [c \in UpperSet |->
        CharAt(LowerLetters, CHOOSE i \in 1..26 : CharAt(UpperLetters, i) = c)]

UpperMap ==
    [c \in LowerSet |->
        CharAt(UpperLetters, CHOOSE i \in 1..26 : CharAt(LowerLetters, i) = c)]

LowerChar(c) == IF c \in UpperSet THEN LowerMap[c] ELSE c

UpperChar(c) == IF c \in LowerSet THEN UpperMap[c] ELSE c

\* str.lower()
RECURSIVE Lower(_)
Lower(s) ==
    IF Len(s) = 0 THEN ""
    ELSE IF Len(s) = 1 THEN LowerChar(s)
    ELSE LET h == Len(s) \div 2 IN
         Lower(SubSeq(s, 1, h)) \o Lower(SubSeq(s, h + 1, Len(s)))

\* str.strip(): without leading and trailing whitespace
Strip(s) ==
    IF \A i \in 1..Len(s) : CharAt(s, i) \in Whitespace THEN ""
    ELSE SubSeq(s,
                CHOOSE i \in 1..Len(s) :
                    /\ CharAt(s, i) \notin Whitespace
                    /\ \A j \in 1..(i - 1) : CharAt(s, j) \in Whitespace,
                Len(s) - (CHOOSE k \in 0..(Len(s) - 1) :
                    /\ CharAt(s, Len(s) - k) \notin Whitespace
                    /\ \A j \in (Len(s) - k + 1)..Len(s) :
                          CharAt(s, j) \in Whitespace))

\* c * n
RECURSIVE Repeat(_, _)
Repeat(c, n) ==
    IF n = 0 THEN ""
    ELSE LET h == Repeat(c, n \div 2) IN
         IF n % 2 = 0 THEN h \o h ELSE h \o h \o c

\* sub in s
Contains(s, sub) ==
    \E i \in 1..(Len(s) - Len(sub) + 1) : SubSeq(s, i, i + Len(sub) - 1) = sub

\* s.startswith(prefix)
StartsWith(s, prefix) ==
    Len(prefix) <= Len(s) /\ SubSeq(s, 1, Len(prefix)) = prefix

----------------------------------------------------------------------------
(* Rate limiter, app.py:40-49 *)

Ips == {"10.0.0.1", "10.0.0.2"}

\* line 43: the timestamps younger than the window
PruneRequestsOffByOne(lst, t) ==
    SelectSeq(lst, LAMBDA x : t - x <= RATE_LIMIT_WINDOW)

PruneRequests(lst, t) ==
    SelectSeq(lst, LAMBDA x : t - x < RATE_LIMIT_WINDOW)

\* lines 43-49 as one step: <<new user_requests, returned value>>
RateLimitStepAppendsAlways(reqs, ip, t) ==
    LET pruned == PruneRequests(DictGet(reqs, ip, <<>>), t) IN
    <<DictSet(reqs, ip, Append(pruned, t)), Len(pruned) >= RATE_LIMIT_MAX>>

RateLimitStep(reqs, ip, t) ==
    LET pruned == PruneRequests(DictGet(reqs, ip, <<>>), t) IN
    IF Len(pruned) >= RATE_LIMIT_MAX
    THEN <<DictSet(reqs, ip, pruned), TRUE>>
    ELSE <<DictSet(reqs, ip, Append(pruned, t)), FALSE>>

\* k timestamps of one instant: what k sequential admitted calls leave behind
Burst(k, t) == [i \in 1..k |-> t]

\* number of admitted calls of a history that lie inside the window ending at t
InWindow(hist, t) ==
    Cardinality({i \in 1..Len(hist) : t - hist[i] < RATE_LIMIT_WINDOW})

\* is_rate_limited(user_ip), called by one thread at a time
IsRateLimited(ip) ==
    LET r == RateLimitStep(user_requests, ip, now) IN
    /\ user_requests' = r[1]
    /\ admitted' = IF r[2] THEN admitted
                   ELSE [admitted EXCEPT ![ip] = Append(@, now)]
    /\ last' = [op |-> "is_rate_limited", ip |-> ip, now |-> now,
                limited |-> r[2],
                before |-> InWindow(admitted[ip], now),
                oldest |-> IF DictGet(user_requests, ip, <<>>) = <<>> THEN now
                           ELSE DictGet(user_requests, ip, <<>>)[1]]
    /\ UNCHANGED <<now, user_memory, exchanges, response_cache, threads, ncalls>>

\* the clock advances by d seconds, up to limit
Tick(d, limit) ==
    /\ now + d <= limit
    /\ now' = now + d
    /\ UNCHANGED <<user_requests, user_memory, exchanges, response_cache, threads,
                   admitted, last, ncalls>>

----------------------------------------------------------------------------
(* Conversation memory, app.py:36 and 51-66 *)

\* get_user_id returns the first 16 hex digits of an md5 digest
UserIds == {"27f20669cad5d463", "9bab6f89342c7cab"}

Min(a, b) == IF a < b THEN a ELSE b
Max(a, b) == IF a > b THEN a ELSE b

\* deque(maxlen=5).append: a full deque discards its leftmost item
DequeAppendDropNewest(d, x) ==
    IF Len(d) >= MEMORY_MAXLEN THEN d ELSE Append(d, x)

DequeAppend(d, x) ==
    IF Len(d) >= MEMORY_MAXLEN THEN Append(Tail(d), x) ELSE Append(d, x)

\* lines 53-57: the dict stored for one exchange
Exchange(message, response, t) ==
    [user |-> message, assistant |-> response, timestamp |-> t]

\* update_user_memory on a memory dict: the defaultdict creates the ring
MemoryAppend(mem, uid, message, response, t) ==
    DictSet(mem, uid,
            DequeAppend(DictGet(mem, uid, <<>>), Exchange(message, response, t)))

\* a Python slice lst[-n:]
LastN(lst, n) ==
    IF n = 0 THEN lst ELSE SubSeq(lst, Max(1, Len(lst) - n + 1), Len(lst))

\* sep.join(lines)
RECURSIVE Join(_, _)
Join(lines, sep) ==
    IF lines = <<>> THEN ""
    ELSE IF Len(lines) = 1 THEN lines[1]
    ELSE lines[1] \o sep \o Join(Tail(lines), sep)

\* lines 62-65: two lines per exchange
RECURSIVE FormatHistory(_)
FormatHistory(history) ==
    IF history = <<>> THEN <<>>
    ELSE <<"User: " \o Head(history).user,
           "Assistant: " \o Head(history).assistant>>
         \o FormatHistory(Tail(history))

\* get_conversation_history's return value
ConversationHistory(mem, uid, max_messages) ==
    Join(FormatHistory(LastN(DictGet(mem, uid, <<>>), max_messages)), "\n")

\* update_user_memory(user_id, message, response)
UpdateUserMemory(uid, message, response) ==
    /\ ncalls' = ncalls + 1
    /\ user_memory' = MemoryAppend(user_memory, uid, message, response, now)
    /\ exchanges' = [exchanges EXCEPT
                        ![uid] = Append(@, Exchange(message, response, now))]
    /\ last' = [op |-> "update_user_memory", uid |-> uid,
                before |-> DictGet(user_memory, uid, <<>>)]
    /\ UNCHANGED <<now, user_requests, response_cache, threads, admitted>>

\* get_conversation_history(user_id, max_messages); reading
\* user_memory[user_id] creates the ring of a user that has none
GetConversationHistory(uid, max_messages) ==
    /\ ncalls' = ncalls + 1
    /\ user_memory' = DictSet(user_memory, uid, DictGet(user_memory, uid, <<>>))
    /\ last' = [op |-> "get_conversation_history", uid |-> uid,
                n |-> max_messages,
                result |-> ConversationHistory(user_memory, uid, max_messages)]
    /\ UNCHANGED <<now, user_requests, response_cache, threads, admitted,
                   exchanges>>

----------------------------------------------------------------------------
(* Response cache, app.py:76-91 *)

\* an optional value: None, or the value v
None == [some |-> FALSE, value |-> ""]
Some(v) == [some |-> TRUE, value |-> v]

\* the default user_id=None
NoUser == ""

\* lines 81 and 90: the cache key of a message in a user's context
CacheKeyShared(message, user_id) == Strip(Lower(message))

CacheKey(message, user_id) ==
    IF user_id # NoUser THEN user_id \o ":" \o Strip(Lower(message))
    ELSE Strip(Lower(message))

\* lines 82-86: the value get_cached_response returns at time t
CachedResponse(cache, message, user_id, t) ==
    LET key == CacheKey(message, user_id) IN
    IF key \in DOMAIN cache /\ t - cache[key][1] < CACHE_DURATION
    THEN Some(cache[key][2])
    ELSE None

\* line 91: the cache after cache_response at time t
CacheStore(cache, message, response, user_id, t) ==
    DictSet(cache, CacheKey(message, user_id), <<t, response>>)

\* get_cached_response(message, user_id)
GetCachedResponse(message, user_id) ==
    /\ ncalls' = ncalls + 1
    /\ last' = [op |-> "get_cached_response", user_id |-> user_id,
                key |-> CacheKey(message, user_id),
                now |-> now,
                before |-> response_cache,
                result |-> CachedResponse(response_cache, message, user_id, now)]
    /\ UNCHANGED <<now, user_requests, user_memory, exchanges, response_cache,
                   threads, admitted>>

\* cache_response(message, response, user_id)
CacheResponse(message, response, user_id) ==
    /\ ncalls' = ncalls + 1
    /\ response_cache' =
           CacheStore(response_cache, message, response, user_id, now)
    /\ last' = [op |-> "cache_response", user_id |-> user_id,
                key |-> CacheKey(message, user_id),
                now |-> now,
                before |-> response_cache]
    /\ UNCHANGED <<now, user_requests, user_memory, exchanges, threads,
                   admitted>>

----------------------------------------------------------------------------
(* Canned responses, app.py:94-116 (the emoji of the texts are left out) *)

COMMON_RESPONSES == <<
    <<"hi", <<"Oh hey there...", "Hi! Don't be boring okay?", "Hey you!">> >>,
    <<"hello", <<"Oh hello...", "Hi there! Make it quick", "Hello human!">> >>,
    <<"how are you", <<"Living my best digital life, duh!",
                       "Better than you, probably",
                       "Iconic as always! How about you?">> >>,
    <<"whats up", <<"Just being iconic, you?",
                    "Not much, just slaying as usual",
                    "Plotting world domination, you?">> >>,
    <<"thanks", <<"You're welcome! But I know I'm amazing", "No problem!",
                  "Anytime!">> >>,
    <<"thank you", <<"You're welcome! Try not to be so basic next time",
                     "Yw!", "No worries! I'm here all week!">> >>,
    <<"bye", <<"Bye! Don't miss me too much", "Finally leaving? Ciao!",
               "See ya! Wouldn't wanna be ya!">> >>,
    <<"good morning", <<"Morning! You're up early... tryna impress me?",
                        "Good morning sunshine!",
                        "Morning! Coffee first, then me">> >>,
    <<"good night", <<"Night! Don't let the bed bugs bite", "Sweet dreams!",
                      "Good night! Sleep tight!">> >>,
    <<"who made you", <<"Created by @Just_Collins101 & @heis_tomi! They're kinda cool",
                        "My awesome creators!", "The dynamic duo!">> >>,
    <<"roast me", <<"Oh you asked for it... let me think of something nice to say...",
                    "Your personality is like a cloud... when it's gone it's a beautiful day",
                    "I would roast you but my mom said I shouldn't burn trash">> >>,
    <<"flirt with me", <<"Oh honey, I'm out of your league... but I can pretend",
                         "Are you a magician? Because whenever I look at you, everyone else disappears",
                         "Is your name Google? Because you have everything I've been searching for">> >>,
    <<"joke", <<"Why don't scientists trust atoms? Because they make up everything!",
                "What do you call a bear with no teeth? A gummy bear!",
                "Why did the scarecrow win an award? Because he was outstanding in his field!">> >>,
    <<"lol", <<"Glad I could make you laugh! I'm hilarious",
               "I know, I'm funny!", "Told you I was the best!">> >>,
    <<"ok", <<"Okurrr!", "Okie dokie! Now what?", "Alrighty then!">> >>,
    <<"time", <<"It's 09:00 AM">> >>,
    <<"date", <<"Today is January 01, 2026">> >>,
    <<"name", <<"I'm Miss Tristin! The sassiest AI you'll meet",
                "Miss Tristin at your service!",
                "The one and only Miss Tristin!">> >>,
    <<"weather", <<"I'm not a weather app, but I'm always sunny inside!",
                   "Check your phone for that, I'm busy being fabulous!">> >>,
    <<"help", <<"I can chat, define words, write essays, and be sassy! What do you need?",
                "Just talk to me like a normal person! I'll figure it out">> >>,
    <<"love you", <<"Aww! I love me too!",
                    "You're sweet! But I'm taken by my code", "<3">> >>
>>

CommonKeys == [n \in 1..Len(COMMON_RESPONSES) |-> COMMON_RESPONSES[n][1]]

----------------------------------------------------------------------------
(* Regular-expression matching, as re.search does it on these patterns *)

\* the literal lit occurs in s at position i
MatchAt(s, i, lit) ==
    /\ i >= 1
    /\ i + Len(lit) - 1 <= Len(s)
    /\ SubSeq(s, i, i + Len(lit) - 1) = lit

IsWordAt(s, i) == i >= 1 /\ i <= Len(s) /\ CharAt(s, i) \in WordChars

IsSpaceAt(s, i) == i >= 1 /\ i <= Len(s) /\ CharAt(s, i) \in Whitespace

\* the last position of the greedy \w+ that starts at i
WordRunEnd(s, i) ==
    CHOOSE j \in i..Len(s) :
        (\A k \in i..j : IsWordAt(s, k)) /\ ~IsWordAt(s, j + 1)

\* the last position of the greedy \s+ that starts at i
SpaceRunEnd(s, i) ==
    CHOOSE j \in i..Len(s) :
        (\A k \in i..j : IsSpaceAt(s, k)) /\ ~IsSpaceAt(s, j + 1)

\* the smallest element of a non-empty set of integers
Least(S) == CHOOSE x \in S : \A y \in S : x <= y

\* line 168: (?:define|meaning of|what does|definition of|what is|tell me about)\s+(\w+)
DefinitionKeywords ==
    <<"define", "meaning of", "what does", "definition of", "what is",
      "tell me about">>

\* the pattern of line 168 matches at position i with alternative n
Pattern1MatchesAt(s, i, n) ==
    LET p == i + Len(DefinitionKeywords[n]) IN
    /\ MatchAt(s, i, DefinitionKeywords[n])
    /\ IsSpaceAt(s, p)
    /\ IsWordAt(s, SpaceRunEnd(s, p) + 1)

\* re.search with the pattern of line 168: group(1) of the leftmost match
SearchPattern1(s) ==
    LET hits == {h \in (1..Len(s)) \X (1..Len(DefinitionKeywords)) :
                    Pattern1MatchesAt(s, h[1], h[2])} IN
    IF hits = {} THEN None
    ELSE LET i == Least({h[1] : h \in hits})
             n == Least({h[2] : h \in {g \in hits : g[1] = i}})
             q == SpaceRunEnd(s, i + Len(DefinitionKeywords[n])) + 1 IN
         Some(SubSeq(s, q, WordRunEnd(s, q)))

\* line 169: (\w+)\s+(?:means|meaning)
MeansKeywords == <<"means", "meaning">>

Pattern2MatchesAt(s, i) ==
    /\ IsWordAt(s, i)
    /\ LET e == WordRunEnd(s, i) IN
       /\ IsSpaceAt(s, e + 1)
       /\ \E n \in 1..Len(MeansKeywords) :
             MatchAt(s, SpaceRunEnd(s, e + 1) + 1, MeansKeywords[n])

\* re.search with the pattern of line 169: group(1) of the leftmost match
SearchPattern2(s) ==
    LET hits == {i \in 1..Len(s) : Pattern2MatchesAt(s, i)} IN
    IF hits = {} THEN None
    ELSE LET i == Least(hits) IN Some(SubSeq(s, i, WordRunEnd(s, i)))

\* a pattern 'a.*b': a, then b later on the same line
MatchesThen(s, a, b) ==
    \E i \in 1..Len(s) :
        /\ MatchAt(s, i, a)
        /\ \E j \in (i + Len(a))..Len(s) :
              /\ MatchAt(s, j, b)
              /\ \A k \in (i + Len(a))..(j - 1) : CharAt(s, k) # "\n"

\* lines 180-187: <<a, b>> stands for 'a.*b', <<a, "">> for the literal a
LONG_PATTERNS == <<
    <<"write", "essay">>, <<"essay about", "">>, <<"write", "code">>,
    <<"program", "code">>, <<"explain", "in detail">>,
    <<"detailed explanation", "">>, <<"comprehensive", "">>,
    <<"write", "letter">>, <<"summarize", "">>, <<"analysis", "">>,
    <<"analyze", "">>, <<"step by step", "">>, <<"tutorial", "">>,
    <<"guide", "">>, <<"how to make", "">>, <<"project about", "">>,
    <<"report", "">>, <<"paragraph about", "">>, <<"tell me a story", "">>,
    <<"create a poem", "">>, <<"write a song", "">>, <<"make a list", "">>,
    <<"compare", "and">> >>

LongPatternMatches(s, pat) ==
    IF pat[2] = "" THEN Contains(s, pat[1]) ELSE MatchesThen(s, pat[1], pat[2])

----------------------------------------------------------------------------
(* classify_message, app.py:159-202 *)

\* line 176
DEFINITION_STOPWORDS == {"the", "and", "for", "you", "me"}

AcceptableWord(word) == Len(word) > 1 /\ word \notin DEFINITION_STOPWORDS

\* line 199
SHORT_PREFIXES ==
    {"is ", "are ", "can ", "do ", "does ", "will ", "would ", "should ",
     "could ", "have "}

Classify(message) ==
    LET msg_lower == Strip(Lower(message))
        m1 == SearchPattern1(msg_lower)
        m2 == SearchPattern2(msg_lower) IN
    IF Len(message) > LONG_MESSAGE_LEN THEN "long"
    ELSE IF m1.some /\ AcceptableWord(m1.value) THEN "definition"
    ELSE IF m2.some /\ AcceptableWord(m2.value) THEN "definition"
    ELSE IF \E n \in 1..Len(LONG_PATTERNS) :
                LongPatternMatches(msg_lower, LONG_PATTERNS[n]) THEN "long"
    ELSE IF \E n \in 1..Len(CommonKeys) :
                \/ CommonKeys[n] = msg_lower
                \/ Contains(msg_lower, CommonKeys[n]) THEN "common"
    ELSE IF \E pre \in SHORT_PREFIXES : StartsWith(msg_lower, pre) THEN "short"
    ELSE "normal"

----------------------------------------------------------------------------
(* get_common_response, app.py:204-215 *)

\* the variants random.choice draws from; <<>> when the function returns None
CommonVariants(message) ==
    LET msg_lower == Strip(Lower(message))
        exact == {n \in 1..Len(CommonKeys) : CommonKeys[n] = msg_lower}
        inside == {n \in 1..Len(CommonKeys) : Contains(msg_lower, CommonKeys[n])}
    IN IF exact # {} THEN COMMON_RESPONSES[Least(exact)][2]
       ELSE IF inside # {} THEN COMMON_RESPONSES[Least(inside)][2]
       ELSE <<>>

----------------------------------------------------------------------------
(* get_word_definition, app.py:119-157 *)

\* str.capitalize()
Capitalize(word) ==
    IF word = "" THEN ""
    ELSE UpperChar(CharAt(word, 1)) \o Lower(SubSeq(word, 2, Len(word)))

\* what the dictionary service may answer to the one request of line 126:
\* an entry, no entry (another status, an empty list, no meanings), a
\* timeout, or a failure that line 154 catches
DictReplies ==
    { [kind |-> "entry", definition |-> "a small animal", phonetic |-> "",
       example |-> "", synonyms |-> <<>>],
      [kind |-> "entry", definition |-> "a small animal", phonetic |-> "/kat/",
       example |-> "the cat sat", synonyms |-> <<"feline", "kitty">>],
      [kind |-> "no_entry"],
      [kind |-> "timeout"],
      [kind |-> "error"] }

DICT_TIMEOUT_TEXT == "The dictionary is taking too long... typical!"

NotFoundText(word) ==
    "Sorry, couldn't find a definition for '" \o word \o "'. Try another word?"

\* lines 138-151: the text built from an entry
EntryText(word, reply) ==
    "**" \o Capitalize(word) \o "**"
    \o (IF reply.phonetic # "" THEN " *[" \o reply.phonetic \o "]*" ELSE "")
    \o ": " \o reply.definition
    \o (IF reply.example # ""
        THEN "\n\n*Example*: \"" \o reply.example \o "\"" ELSE "")
    \o (IF reply.synonyms # <<>>
        THEN "\n\n*Synonyms*: " \o Join(SubSeq(reply.synonyms, 1, Min(5, Len(reply.synonyms))), ", ")
        ELSE "")
    \o "\n\nYou're welcome! I'm smarter than Google"

\* the string get_word_definition returns for a word of 1..50 characters
WordDefinition(word, reply) ==
    IF reply.kind = "entry" THEN EntryText(word, reply)
    ELSE IF reply.kind = "timeout" THEN DICT_TIMEOUT_TEXT
    ELSE NotFoundText(word)

----------------------------------------------------------------------------
(* AIService._get_ai_response, app.py:291-367 *)

\* self.groq_key; the server refuses to start without one (lines 523-526)
GROQ_KEY == "gsk_configured"

\* what the completion service may answer to the one request of line 344
AIReplies ==
    { [kind |-> "ok", content |-> " Because I said so. "],
      [kind |-> "ok", content |-> " "],
      [kind |-> "status", code |-> 429],
      [kind |-> "status", code |-> 503],
      [kind |-> "timeout"],
      [kind |-> "connection"],
      [kind |-> "exception"] }

\* the string _get_ai_response returns
AIResponse(reply) ==
    IF GROQ_KEY = "" \/ GROQ_KEY = "your_groq_api_key_here"
    THEN "API key not configured! Tell my creators to fix this!"
    ELSE IF reply.kind = "ok" THEN Strip(reply.content)
    ELSE IF reply.kind = "status" /\ reply.code = 429
         THEN "Too many requests! Even I need a break sometimes!"
    ELSE IF reply.kind = "status"
         THEN "API error " \o ToString(reply.code) \o "! Try again?"
    ELSE IF reply.kind = "timeout"
         THEN "The AI is taking too long... typical! Try asking something shorter?"
    ELSE IF reply.kind = "connection"
         THEN "Can't connect to my brain right now! Check your internet?"
    ELSE "Oops! My circuits are crossed. Try again?"

----------------------------------------------------------------------------
(* AIService.get_response, app.py:223-289 *)

EMPTY_TEXT == "You sent me nothing! How rude!"
TOO_LONG_TEXT == "That's way too long for me! TL;DR please!"
THROTTLE_TEXT == "Whoa slow down! I need to breathe too Try again in a minute!"

\* lines 274-277 and 279-285
FALLBACKS_WITH_HISTORY ==
    <<"You're changing the subject! Let's get back to what we were talking about!",
      "Hmm, interesting shift in topic! What else you got?">>

FALLBACKS_NO_HISTORY ==
    <<"Interesting! Tell me more", "Hmm, I'm listening... go on",
      "Okay, and? I need more details", "Spill the tea!",
      "You have my attention... continue">>

\* line 243: re.findall(r'\b\w{2,}\b', s): the runs of 2 or more word
\* characters of s, from position i on
RECURSIVE WordsFrom(_, _)
WordsFrom(s, i) ==
    IF i > Len(s) THEN <<>>
    ELSE IF IsWordAt(s, i)
         THEN LET e == WordRunEnd(s, i) IN
              (IF e - i + 1 >= 2 THEN <<SubSeq(s, i, e)>> ELSE <<>>)
              \o WordsFrom(s, e + 1)
         ELSE WordsFrom(s, i + 1)

\* line 245
LOOKUP_SKIP_WORDS ==
    {"define", "meaning", "what", "does", "mean", "of", "the", "and", "is"}

\* lines 243-247: the word the dictionary is asked for, i.e. the first word
\* that is not skipped and that get_word_definition does not refuse (line 121)
LookupWord(message) ==
    LET words == WordsFrom(Lower(message), 1)
        ok == {n \in 1..Len(words) :
                  words[n] \notin LOOKUP_SKIP_WORDS /\ Len(words[n]) <= MAX_WORD_LEN}
    IN IF ok = {} THEN None ELSE Some(words[Least(ok)])

\* one way a get_response call can end: the returned text, the globals it
\* leaves behind, the path it took, the exchanges it appended, the requests
\* it sent to the dictionary and completion services and how they ended
Outcome(response, path, reqs, mem, cache, appended, dict, ai) ==
    [response |-> response, path |-> path, requests |-> reqs, memory |-> mem,
     cache |-> cache, appended |-> appended, dictCalls |-> dict,
     aiCalls |-> ai, dictReply |-> "none", aiReply |-> "none",
     dictWord |-> ""]

\* how a request to the completion service ended
AIReplyName(reply) ==
    IF reply.kind = "status" THEN "status " \o ToString(reply.code)
    ELSE reply.kind

\* lines 248-250, 256-258, 267-269: cache the response, record the exchange
ResolvedWithoutMemory(response, path, reqs, mem, cache, m, uid, t, dict, ai) ==
    Outcome(response, path, reqs, mem,
            CacheStore(cache, m, response, uid, t), <<>>, dict, ai)

Resolved(response, path, reqs, mem, cache, m, uid, t, dict, ai) ==
    Outcome(response, path, reqs,
            MemoryAppend(mem, uid, m, response, t),
            CacheStore(cache, m, response, uid, t),
            <<Exchange(m, response, t)>>, dict, ai)

\* lines 260-289: the rate check and the completion path
CompletionOutcomes(reqs, mem, cache, t, m, ip, uid) ==
    LET r == RateLimitStep(reqs, ip, t)
        \* line 297: reading the history creates the user's ring
        mem1 == DictSet(mem, uid, DictGet(mem, uid, <<>>))
        fallbacks == IF ConversationHistory(mem1, uid, MEMORY_MAXLEN) # ""
                     THEN FALLBACKS_WITH_HISTORY ELSE FALLBACKS_NO_HISTORY
    IN IF r[2]
       THEN {Outcome(THROTTLE_TEXT, "throttled", r[1], mem, cache, <<>>, 0, 0)}
       ELSE UNION {
              IF AIResponse(reply) # ""
              THEN {[Resolved(AIResponse(reply), "completion", r[1], mem1,
                              cache, m, uid, t, 0, 1)
                        EXCEPT !.aiReply = AIReplyName(reply)]}
              ELSE {[Outcome(fallbacks[n], "fallback", r[1],
                             MemoryAppend(mem1, uid, m, fallbacks[n], t),
                             cache, <<Exchange(m, fallbacks[n], t)>>, 0, 1)
                        EXCEPT !.aiReply = AIReplyName(reply)]
                    : n \in 1..Len(fallbacks)}
              : reply \in AIReplies }

\* lines 227-231: the validation of the trimmed message
ValidateNoLengthCap(m) == IF m = "" THEN "empty" ELSE "ok"

Validate(m) ==
    IF m = "" THEN "empty"
    ELSE IF Len(m) > MAX_MESSAGE_LEN THEN "too_long"
    ELSE "ok"

\* get_response(message, user_ip, user_id) at time t on the given globals:
\* the set of ways the call can end
GetResponseOutcomes(reqs, mem, cache, t, message, ip, uid) ==
    LET m == Strip(message)
        cached == CachedResponse(cache, m, uid, t)
        msg_type == Classify(m)
        word == LookupWord(m)
        variants == CommonVariants(m)
    IN IF Validate(m) = "empty"
       THEN {Outcome(EMPTY_TEXT, "empty", reqs, mem, cache, <<>>, 0, 0)}
       ELSE IF Validate(m) = "too_long"
       THEN {Outcome(TOO_LONG_TEXT, "too_long", reqs, mem, cache, <<>>, 0, 0)}
       ELSE IF cached.some /\ cached.value # ""
       THEN {Outcome(cached.value, "cached", reqs, mem, cache, <<>>, 0, 0)}
       ELSE IF msg_type = "definition" /\ word.some
       THEN {[Resolved(WordDefinition(word.value, reply), "definition", reqs,
                       mem, cache, m, uid, t, 1, 0)
                 EXCEPT !.dictReply = reply.kind, !.dictWord = word.value]
             : reply \in DictReplies}
       ELSE IF msg_type = "common" /\ variants # <<>>
       THEN {Resolved(variants[n], "common", reqs, mem, cache, m, uid, t, 0, 0)
             : n \in 1..Len(variants)}
       ELSE CompletionOutcomes(reqs, mem, cache, t, m, ip, uid)

\* the effect of one outcome on the globals and on the histories
Apply(o, ip, uid) ==
    /\ user_requests' = o.requests
    /\ user_memory' = o.memory
    /\ response_cache' = o.cache
    /\ exchanges' = [exchanges EXCEPT ![uid] = @ \o o.appended]
    /\ admitted' = IF o.path \in {"completion", "fallback"}
                   THEN [admitted EXCEPT ![ip] = Append(@, now)]
                   ELSE admitted

\* what `last` records of a call: its arguments, its outcome and the globals
\* before it
CallRecord(op, message, ip, uid, o, status, success) ==
    [op |-> op, message |-> message, ip |-> ip, uid |-> uid, now |-> now,
     response |-> o.response, path |-> o.path, appended |-> o.appended,
     dictCalls |-> o.dictCalls, aiCalls |-> o.aiCalls,
     dictReply |-> o.dictReply, aiReply |-> o.aiReply,
     dictWord |-> o.dictWord,
     status |-> status, success |-> success,
     requestsBefore |-> user_requests, memoryBefore |-> user_memory,
     cacheBefore |-> response_cache]

\* ai_service.get_response(message, user_ip, user_id)
GetResponse(message, ip, uid) ==
    /\ ncalls' = ncalls + 1
    /\ \E o \in GetResponseOutcomes(user_requests, user_memory, response_cache,
                                    now, message, ip, uid) :
          /\ Apply(o, ip, uid)
          /\ last' = CallRecord("get_response", message, ip, uid, o, 0, TRUE)
    /\ UNCHANGED <<now, threads>>

----------------------------------------------------------------------------
(* POST /api/chat, app.py:385-415 *)

\* the clients: remote address, User-Agent, and the id get_user_id derives
\* from them (the first 16 hex digits of md5("<ip>:<user agent>"))
Clients ==
    { [ip |-> "10.0.0.1", agent |-> "Mozilla/5.0", uid |-> "27f20669cad5d463"],
      [ip |-> "10.0.0.2", agent |-> "curl/8.0", uid |-> "9bab6f89342c7cab"] }

\* request bodies that carry no usable message: JSON that does not parse
\* (get_json raises), null or {}, a JSON list, an object without "message",
\* an object whose "message" is a number
BadBodies == {"malformed", "null", "list", "no_message", "number_message"}

\* the outcome of a call that ends before get_response is reached
NotCalled(path) ==
    Outcome("", path, user_requests, user_memory, response_cache, <<>>, 0, 0)

\* chat_api for a body without usable message
ChatApiBadBody(body, c) ==
    /\ ncalls' = ncalls + 1
    /\ last' = IF body = "null"
               THEN CallRecord("chat_api", body, c.ip, c.uid,
                               NotCalled("no_data"), 400, FALSE)
               ELSE IF body = "no_message"
               THEN CallRecord("chat_api", body, c.ip, c.uid,
                               NotCalled("empty_message"), 400, FALSE)
               ELSE CallRecord("chat_api", body, c.ip, c.uid,
                               NotCalled("exception"), 500, FALSE)
    /\ UNCHANGED <<now, user_requests, user_memory, exchanges, response_cache,
                   threads, admitted>>

\* chat_api for a body {"message": message}
ChatApi(message, c) ==
    /\ ncalls' = ncalls + 1
    /\ IF Strip(message) = ""
       THEN /\ last' = CallRecord("chat_api", message, c.ip, c.uid,
                                  NotCalled("empty_message"), 400, FALSE)
            /\ UNCHANGED <<user_requests, user_memory, exchanges,
                           response_cache, admitted>>
       ELSE \E o \in GetResponseOutcomes(user_requests, user_memory,
                                         response_cache, now, Strip(message),
                                         c.ip, c.uid) :
               /\ Apply(o, c.ip, c.uid)
               /\ last' = CallRecord("chat_api", message, c.ip, c.uid, o,
                                     200, TRUE)
    /\ UNCHANGED <<now, threads>>


----------------------------------------------------------------------------
(* classify_message and get_common_response called on their own *)

\* lines 172-176: the word of the first definition pattern whose match has an
\* acceptable group
DefinitionCandidate(msg_lower) ==
    LET m1 == SearchPattern1(msg_lower)
        m2 == SearchPattern2(msg_lower) IN
    IF m1.some /\ AcceptableWord(m1.value) THEN m1
    ELSE IF m2.some /\ AcceptableWord(m2.value) THEN m2
    ELSE None

\* lines 187-189
MatchesLongPattern(msg_lower) ==
    \E n \in 1..Len(LONG_PATTERNS) : LongPatternMatches(msg_lower, LONG_PATTERNS[n])

\* lines 192-194
MatchesCommonKey(msg_lower) ==
    \E n \in 1..Len(CommonKeys) :
        CommonKeys[n] = msg_lower \/ Contains(msg_lower, CommonKeys[n])

ClassifyMessage(message) ==
    /\ ncalls' = ncalls + 1
    /\ last' = [op |-> "classify_message", message |-> message,
                result |-> Classify(message)]
    /\ UNCHANGED <<now, user_requests, user_memory, response_cache, threads,
                   admitted, exchanges>>

GetCommonResponse(message) ==
    /\ ncalls' = ncalls + 1
    /\ last' = [op |-> "get_common_response", message |-> message,
                variants |-> CommonVariants(message)]
    /\ UNCHANGED <<now, user_requests, user_memory, response_cache, threads,
                   admitted, exchanges>>


----------------------------------------------------------------------------
(* stats, app.py:417-436, and cleanup_old_data, app.py:489-508 *)

\* line 428: the sweep of the stats endpoint
SweptCache(cache, t) ==
    [k \in {x \in DOMAIN cache : t - cache[x][1] < CACHE_DURATION} |-> cache[k]]

Stats ==
    /\ ncalls' = ncalls + 1
    /\ response_cache' = SweptCache(response_cache, now)
    /\ last' = [op |-> "stats", now |-> now, status |-> 200,
                cached_responses |-> Cardinality(DOMAIN SweptCache(response_cache, now)),
                cacheBefore |-> response_cache]
    /\ UNCHANGED <<now, user_requests, user_memory, exchanges, threads,
                   admitted>>

\* lines 495-498
CleanedRequests(reqs, t) ==
    LET kept(ip) == SelectSeq(reqs[ip], LAMBDA x : t - x < RATE_LIMIT_WINDOW * 2)
    IN [ip \in {x \in DOMAIN reqs : kept(x) # <<>>} |-> kept(ip)]

\* line 502
CleanedCache(cache, t) ==
    [k \in {x \in DOMAIN cache : t - cache[x][1] < CACHE_DURATION * 2} |-> cache[k]]

\* lines 505-507
CleanedMemory(mem) ==
    [u \in {x \in DOMAIN mem : mem[x] # <<>>} |-> mem[u]]

CleanupEffect ==
    /\ user_requests' = CleanedRequests(user_requests, now)
    /\ response_cache' = CleanedCache(response_cache, now)
    /\ user_memory' = CleanedMemory(user_memory)
    /\ last' = [op |-> "cleanup_old_data", now |-> now,
                requestsBefore |-> user_requests,
                cacheBefore |-> response_cache,
                memoryBefore |-> user_memory]
    /\ UNCHANGED <<now, exchanges, admitted>>

CleanupOldData ==
    /\ CleanupEffect
    /\ UNCHANGED <<threads, ncalls>>


----------------------------------------------------------------------------
(* clear_memory, app.py:438-448 *)

\* lines 443-444: the ring of the caller is emptied, if there is one
ClearedMemoryAllUsers(mem, uid) ==
    IF uid \in DOMAIN mem THEN [u \in DOMAIN mem |-> <<>>] ELSE mem

ClearedMemory(mem, uid) ==
    IF uid \in DOMAIN mem THEN DictSet(mem, uid, <<>>) ELSE mem

ClearMemory(uid) ==
    /\ ncalls' = ncalls + 1
    /\ user_memory' = ClearedMemory(user_memory, uid)
    /\ exchanges' = [exchanges EXCEPT ![uid] = <<>>]
    /\ last' = [op |-> "clear_memory", uid |-> uid,
                status |-> IF uid \in DOMAIN user_memory THEN 200 ELSE 404,
                success |-> uid \in DOMAIN user_memory,
                memoryBefore |-> user_memory]
    /\ UNCHANGED <<now, user_requests, response_cache, threads, admitted>>

----------------------------------------------------------------------------
(* Initial state: the module-level globals right after import *)

Init ==
    /\ now = 0
    /\ user_requests = EmptyDict
    /\ user_memory = EmptyDict
    /\ exchanges = [u \in UserIds |-> <<>>]
    /\ response_cache = EmptyDict
    /\ threads = EmptyDict
    /\ admitted = [ip \in Ips |-> <<>>]
    /\ last = NoOp
    /\ ncalls = 0

----------------------------------------------------------------------------
(* Specification of the rate limiter under sequential calls *)

RLIp == "10.0.0.1"
RLOtherIp == "10.0.0.2"

NextRL ==
    \/ IsRateLimited(RLIp)
    \/ /\ Len(admitted[RLOtherIp]) < RLOtherCalls
       /\ IsRateLimited(RLOtherIp)
    \/ Tick(RLTick, MaxTimeRL)

SpecRL == Init /\ [][NextRL]_vars

\* C1: a sequential is_rate_limited call at time `now` is admitted exactly
\* when fewer than N = 30 previously admitted calls of the key have a
\* timestamp t with now - t < W = 60.
C1_AdmitIffWindowFree ==
    last.op = "is_rate_limited" =>
        (last.limited = FALSE <=> last.before < RATE_LIMIT_MAX)

\* C1 witness: a full window rejected a call, and later, when the oldest
\* retained timestamp was W seconds old, the key was admitted again.
C1_Witness ==
    /\ last.op = "is_rate_limited"
    /\ last.limited = FALSE
    /\ last.now - last.oldest = RATE_LIMIT_WINDOW
    /\ Len(admitted[last.ip]) > RATE_LIMIT_MAX

----------------------------------------------------------------------------
(* Specification of the conversation memory *)

\* the (message, response) pairs submitted
MemTurns == {<<"hi", "Hey you!">>, <<"Why?", "Because.">>}

NextMem ==
    \/ \E uid \in UserIds, turn \in MemTurns :
          /\ ncalls < MaxMemOps
          /\ UpdateUserMemory(uid, turn[1], turn[2])
    \/ \E uid \in UserIds, n \in {3, MEMORY_MAXLEN} :
          /\ ncalls < MaxMemOps
          /\ GetConversationHistory(uid, n)

SpecMem == Init /\ [][NextMem]_vars

\* the text get_conversation_history must return for the k newest of the
\* exchanges ex: line 2j-1 is the user turn and line 2j the assistant turn of
\* the j-th of them, oldest first
ExpectedHistory(ex, k) ==
    Join([j \in 1..(2 * k) |->
            IF j % 2 = 1
            THEN "User: " \o ex[Len(ex) - k + (j + 1) \div 2].user
            ELSE "Assistant: " \o ex[Len(ex) - k + j \div 2].assistant],
         "\n")

\* C7: a ring holds at most 5 exchanges, always the newest ones in submission
\* order (appending to a full ring drops exactly the oldest), and the
\* history for n = 3 is exactly the 3 most recent exchanges (all of them
\* when fewer exist), oldest first, as 'User: ' / 'Assistant: ' line pairs.
C7_RingAndHistory ==
    /\ \A uid \in DOMAIN user_memory :
          LET ring == user_memory[uid]
              ex == exchanges[uid] IN
          /\ Len(ring) <= 5
          /\ Len(ring) = Min(5, Len(ex))
          /\ \A i \in 1..Len(ring) : ring[i] = ex[Len(ex) - Len(ring) + i]
    /\ (last.op = "update_user_memory" /\ Len(last.before) = 5) =>
          /\ Len(user_memory[last.uid]) = 5
          /\ \A i \in 1..4 : user_memory[last.uid][i] = last.before[i + 1]
    /\ (last.op = "get_conversation_history" /\ last.n = 3) =>
          last.result = ExpectedHistory(exchanges[last.uid],
                                        Min(3, Len(exchanges[last.uid])))

\* C7 witness: a user has submitted more than 5 exchanges and then read the
\* history for n = 3
C7_Witness ==
    /\ last.op = "get_conversation_history"
    /\ last.n = 3
    /\ Len(exchanges[last.uid]) > 5
    /\ Len(user_memory[last.uid]) = 5
    /\ last.result # ""

----------------------------------------------------------------------------
(* Specifications of the response cache *)

CacheMessages == {"hi", " Hi ", "Why?"}
CacheResponses == {"Hey you!", "Because."}
CacheUsers == {"27f20669cad5d463", NoUser}

NextCache ==
    \/ \E m \in CacheMessages, r \in CacheResponses, u \in CacheUsers :
          /\ ncalls < MaxCacheOps
          /\ CacheResponse(m, r, u)
    \/ \E m \in CacheMessages, u \in CacheUsers :
          /\ ncalls < MaxCacheOps
          /\ GetCachedResponse(m, u)
    \/ Tick(CacheTick, MaxTimeCache)

SpecCache == Init /\ [][NextCache]_vars

\* the i-th of a series of distinct messages
FillMessage(i) == "question " \o ToString(i)

FillUser == "27f20669cad5d463"

\* distinct keys are inserted one after another, nothing is read
NextFill ==
    /\ ncalls < MaxFill
    /\ CacheResponse(FillMessage(ncalls + 1), "Because.", FillUser)

SpecFill == Init /\ [][NextFill]_vars

\* C8: the response cache never holds more than C = 500 entries; an insert
\* of a new key into a full cache evicts the least-recently-used entry, so
\* after C + 1 distinct inserts with no reads the first inserted key is gone.
C8_CacheBoundedLRU ==
    /\ Cardinality(DOMAIN response_cache) <= 500
    /\ (last.op = "cache_response" /\ ncalls > 500) =>
          CacheKey(FillMessage(1), FillUser) \notin DOMAIN response_cache

\* C9: get_cached_response returns the stored response of an entry whose age
\* is at most ttl = 300 s and None for an older one, and a get that finds an
\* expired entry removes it from response_cache.
C9_GetExpiresLazily ==
    (last.op = "get_cached_response" /\ last.key \in DOMAIN last.before) =>
        LET entry == last.before[last.key] IN
        IF last.now - entry[1] <= CACHE_DURATION
        THEN last.result = Some(entry[2])
        ELSE /\ last.result = None
             /\ last.key \notin DOMAIN response_cache

----------------------------------------------------------------------------
(* Specification of the chat service: requests of two clients, served one
   after another *)

TooLongMessage == Repeat("x", MAX_MESSAGE_LEN + 1)

Messages == {"hi", "Hi ", "   ", "define cat", "Why?", TooLongMessage}

\* the client on whose behalf get_response is also called directly, with the
\* message as received
DirectCaller == CHOOSE c \in Clients : c.ip = "10.0.0.1"

Next ==
    \/ \E m \in Messages :
          /\ ncalls < MaxCalls
          /\ GetResponse(m, DirectCaller.ip, DirectCaller.uid)
    \/ \E m \in Messages, c \in Clients :
          /\ ncalls < MaxCalls
          /\ ChatApi(m, c)
    \/ \E body \in BadBodies, c \in Clients :
          /\ ncalls < MaxCalls
          /\ ChatApiBadBody(body, c)
    \/ Tick(ChatTick, MaxTimeChat)

Spec == Init /\ [][Next]_vars

\* the calls of `last` that are requests to the chat service
IsRequest == last.op \in {"get_response", "chat_api"}

\* the paths on which a request is turned away at validation
ValidationPaths == {"empty", "too_long", "no_data", "empty_message"}

\* the timestamps of the caller's address that were inside the window when
\* the last request arrived
SlotsUsedBefore ==
    InWindow(DictGet(last.requestsBefore, last.ip, <<>>), last.now)

\* C3: every request that passes validation consults the rate limiter before
\* it is classified or answered: with the N slots of the window used up it
\* gets the throttling message whatever the message is, and every answered
\* valid request consumes one slot.
C3_RateCheckBeforeAnswer ==
    (IsRequest /\ last.path \notin ValidationPaths \cup {"exception"}) =>
        IF SlotsUsedBefore >= RATE_LIMIT_MAX
        THEN last.response = THROTTLE_TEXT
        ELSE InWindow(DictGet(user_requests, last.ip, <<>>), last.now)
                 = SlotsUsedBefore + 1

\* C4: every get_response call that is not rejected at validation or at the
\* rate check appends exactly one exchange, the message and the response
\* actually returned, to the user's memory ring.
C4_EveryAnswerRecorded ==
    (IsRequest /\ last.path \notin ValidationPaths \cup {"exception", "throttled"}) =>
        LET e == Exchange(Strip(last.message), last.response, last.now) IN
        /\ last.appended = <<e>>
        /\ user_memory[last.uid]
               = DequeAppend(DictGet(last.memoryBefore, last.uid, <<>>), e)

\* C5: a message that is blank after trimming, or whose trimmed text is
\* longer than 5000 characters, is answered by get_response with its fixed
\* message while user_requests, response_cache and user_memory stay as they
\* were before the call.
C5_InvalidInputTouchesNothing ==
    (IsRequest /\ last.op = "get_response"
        /\ (Strip(last.message) = "" \/ Len(Strip(last.message)) > 5000)) =>
        /\ last.response =
               IF Strip(last.message) = "" THEN EMPTY_TEXT ELSE TOO_LONG_TEXT
        /\ user_requests = last.requestsBefore
        /\ response_cache = last.cacheBefore
        /\ user_memory = last.memoryBefore
        /\ last.appended = <<>>

\* C5 witness: a too-long message was rejected when the limiter, the cache
\* and the memory already held data of the caller
C5_Witness ==
    /\ last.op = "get_response"
    /\ Len(Strip(last.message)) > 5000
    /\ last.response = TOO_LONG_TEXT
    /\ last.ip \in DOMAIN user_requests
    /\ last.uid \in DOMAIN user_memory
    /\ response_cache # EmptyDict

\* C6: POST /api/chat answers 400 for a blank or too long message, 429 when
\* the rate limiter rejects the request and 500 on an unexpected exception,
\* and none of the three is reported as a success.
C6_HttpStatusCodes ==
    last.op = "chat_api" =>
        /\ last.path \in ValidationPaths =>
              (last.status = 400 /\ ~last.success)
        /\ last.path = "throttled" => (last.status = 429 /\ ~last.success)
        /\ last.path = "exception" => (last.status = 500 /\ ~last.success)

\* C10: a request resolved through get_common_response leaves the response
\* cache unchanged and appends the exchange to memory.
C10_CannedPathSkipsCache ==
    (IsRequest /\ last.path = "common") =>
        /\ response_cache = last.cacheBefore
        /\ last.appended = <<Exchange(Strip(last.message), last.response,
                                      last.now)>>

\* the word get_response asks the dictionary for, given the last message
LastLookupWord == LookupWord(Strip(last.message)).value

\* the texts get_word_definition returns when it has no definition to give
DictFailureTexts == {DICT_TIMEOUT_TEXT, NotFoundText(LastLookupWord)}

\* C11: when the dictionary has no definition of the word, get_response
\* returns the fixed "couldn't find" message and leaves the response cache as
\* it was.
C11_NotFoundNotCached ==
    (IsRequest /\ last.dictReply = "no_entry") =>
        /\ last.response = NotFoundText(LastLookupWord)
        /\ response_cache = last.cacheBefore

\* C12: when the dictionary lookup fails transiently (timeout, connection or
\* decoding error) the request goes on to the rate check and the completion
\* path, and no dictionary-failure text is returned, cached or recorded.
C12_TransientFallsThrough ==
    (IsRequest /\ last.dictReply \in {"timeout", "error"}) =>
        /\ last.path \in {"completion", "fallback", "throttled"}
        /\ last.response \notin DictFailureTexts
        /\ \A k \in DOMAIN response_cache :
              k \notin DOMAIN last.cacheBefore =>
                  response_cache[k][2] \notin DictFailureTexts
        /\ \A i \in 1..Len(last.appended) :
              last.appended[i].assistant \notin DictFailureTexts

\* the fixed texts of the completion failures (lines 358-367)
CompletionFailureTexts ==
    [r \in {"status 429", "status 503", "timeout", "connection", "exception"} |->
        CASE r = "status 429" ->
                 "Too many requests! Even I need a break sometimes!"
          [] r = "status 503" -> "API error 503! Try again?"
          [] r = "timeout" ->
                 "The AI is taking too long... typical! Try asking something shorter?"
          [] r = "connection" ->
                 "Can't connect to my brain right now! Check your internet?"
          [] r = "exception" -> "Oops! My circuits are crossed. Try again?"]

\* C13: a request makes at most one attempt against the completion service
\* and at most one against the dictionary service; when the completion call
\* fails (rate-limited, timeout, service error) it is not repeated, the fixed
\* message of that failure is returned and appended to the user's memory.
C13_SingleAttemptAndFallback ==
    IsRequest =>
        /\ last.dictCalls <= 1
        /\ last.aiCalls <= 1
        /\ last.aiReply \in DOMAIN CompletionFailureTexts =>
              LET e == Exchange(Strip(last.message), last.response, last.now) IN
              /\ last.aiCalls = 1
              /\ last.response = CompletionFailureTexts[last.aiReply]
              /\ last.appended = <<e>>
              /\ Len(user_memory[last.uid]) >= 1
              /\ user_memory[last.uid][Len(user_memory[last.uid])] = e

\* C13 witness: the completion call timed out for a user who already had an
\* exchange in memory
C13_Witness ==
    /\ IsRequest
    /\ last.aiReply = "timeout"
    /\ last.aiCalls = 1
    /\ Len(user_memory[last.uid]) >= 2


----------------------------------------------------------------------------
(* The classifier on its own, over messages that match several rules *)

MaxClassifyCalls == 2

ClassifySubjects ==
    {"hi", "history", "ok", "broken", "help", "cat", "it", "the", "joke",
     "sometimes"}

ClassifyMessages ==
    UNION {{x, " " \o x \o "  ", "define " \o x, "What is " \o x \o "?",
            "tell me about " \o x, x \o " means", "is " \o x \o " fine",
            "write an essay about " \o x, "compare " \o x \o " and dogs",
            "Please " \o x \o "!", "summarize " \o x \o " meaning"}
           : x \in ClassifySubjects}
    \cup {"hi " \o Repeat("x", LONG_MESSAGE_LEN),
          "define cat" \o Repeat(" ", LONG_MESSAGE_LEN)}

NextClassify ==
    \/ \E m \in ClassifyMessages :
          /\ ncalls < MaxClassifyCalls
          /\ ClassifyMessage(m)
    \/ \E m \in ClassifyMessages :
          /\ ncalls < MaxClassifyCalls
          /\ GetCommonResponse(m)

SpecClassify == Init /\ [][NextClassify]_vars

\* C14: classify_message applies its rules in the order length over 1000,
\* definition intent, canned key, long-form pattern, otherwise normal; the
\* first rule that matches gives the class.
C14_RuleOrder ==
    LET msg_lower == Strip(Lower(last.message))
        claimed ==
            IF Len(last.message) > LONG_MESSAGE_LEN THEN "long"
            ELSE IF DefinitionCandidate(msg_lower).some THEN "definition"
            ELSE IF MatchesCommonKey(msg_lower) THEN "common"
            ELSE IF MatchesLongPattern(msg_lower) THEN "long"
            ELSE "normal"
    IN last.op = "classify_message" => last.result = claimed

\* C15: a message is classified common, and given a canned key's variants,
\* only when some canned key stands in the message as a phrase of its own,
\* with no word character on either side.
C15_CommonNeedsStandaloneKey ==
    LET msg_lower == Strip(Lower(last.message))
        standalone(key) ==
            \E i \in 1..Len(msg_lower) :
                /\ MatchAt(msg_lower, i, key)
                /\ ~IsWordAt(msg_lower, i - 1)
                /\ ~IsWordAt(msg_lower, i + Len(key))
        common == \/ last.op = "classify_message" /\ last.result = "common"
                  \/ last.op = "get_common_response" /\ last.variants # <<>>
    IN common => \E n \in 1..Len(CommonKeys) : standalone(CommonKeys[n])


----------------------------------------------------------------------------
(* cleanup_old_data called on globals that hold old and young data *)

MaxCleanupOps == 3
MaxCleanupAdmits == 2
CleanupTick == 150
MaxTimeCleanup == 600

NextCleanup ==
    \/ \E m \in {"hi", "Why?"} :
          /\ ncalls < MaxCleanupOps
          /\ CacheResponse(m, "Because.", DirectCaller.uid)
    \/ /\ Len(admitted[DirectCaller.ip]) < MaxCleanupAdmits
       /\ IsRateLimited(DirectCaller.ip)
    \/ /\ ncalls < MaxCleanupOps
       /\ GetConversationHistory(DirectCaller.uid, MEMORY_MAXLEN)
    \/ CleanupOldData
    \/ Tick(CleanupTick, MaxTimeCleanup)

SpecCleanup == Init /\ [][NextCleanup]_vars

\* C16: when cleanup_old_data has run the response cache holds no entry older
\* than 300 s and the rate limiter no key whose timestamps are all older than
\* 120 s, and the entries and keys younger than that are kept as they were.
C16_CleanupRemovesExpired ==
    LET young(ip) == SelectSeq(last.requestsBefore[ip],
                               LAMBDA x : last.now - x < 2 * RATE_LIMIT_WINDOW)
    IN last.op = "cleanup_old_data" =>
        /\ \A k \in DOMAIN response_cache :
              last.now - response_cache[k][1] <= CACHE_DURATION
        /\ \A ip \in DOMAIN user_requests :
              \E n \in 1..Len(user_requests[ip]) :
                  last.now - user_requests[ip][n] <= 2 * RATE_LIMIT_WINDOW
        /\ \A k \in DOMAIN last.cacheBefore :
              last.now - last.cacheBefore[k][1] < CACHE_DURATION =>
                  /\ k \in DOMAIN response_cache
                  /\ response_cache[k] = last.cacheBefore[k]
        /\ \A ip \in DOMAIN last.requestsBefore :
              young(ip) # <<>> =>
                  /\ ip \in DOMAIN user_requests
                  /\ user_requests[ip] = young(ip)


----------------------------------------------------------------------------
(* The server process from start-up on, app.py:510-541: the main thread runs
   cleanup_old_data once and then serves requests; the module starts no
   timer and no background thread *)

MaxServeCalls == 2
ServeTick == 300
MaxTimeServe == 900

MainThread == 0

ServeMessages == {"hi", "Why?"}

InitServe ==
    /\ now = 0
    /\ user_requests = EmptyDict
    /\ user_memory = EmptyDict
    /\ exchanges = [u \in UserIds |-> <<>>]
    /\ response_cache = EmptyDict
    /\ threads = [th \in {MainThread} |-> [pc |-> "startup"]]
    /\ admitted = [ip \in Ips |-> <<>>]
    /\ last = NoOp
    /\ ncalls = 0

Serving == threads[MainThread].pc = "serving"

\* lines 511-541: cleanup_old_data(), then app.run(threaded=True)
Startup ==
    /\ threads[MainThread].pc = "startup"
    /\ CleanupEffect
    /\ threads' = [threads EXCEPT ![MainThread] = [pc |-> "serving"]]
    /\ UNCHANGED ncalls

NextServe ==
    \/ Startup
    \/ \E m \in ServeMessages, c \in Clients :
          /\ Serving
          /\ ncalls < MaxServeCalls
          /\ ChatApi(m, c)
    \/ /\ Serving
       /\ ncalls < MaxServeCalls
       /\ Stats
    \/ Tick(ServeTick, MaxTimeServe)

\* the main thread gets past start-up and the clock runs; no client is ever
\* obliged to send a request
SpecServe ==
    /\ InitServe
    /\ [][NextServe]_vars
    /\ WF_vars(Startup)
    /\ WF_vars(Tick(ServeTick, MaxTimeServe))

\* data that cleanup_old_data would remove if it ran now
StaleData ==
    \/ \E k \in DOMAIN response_cache :
          now - response_cache[k][1] >= CACHE_DURATION * 2
    \/ \E ip \in DOMAIN user_requests :
          \A n \in 1..Len(user_requests[ip]) :
              now - user_requests[ip][n] >= RATE_LIMIT_WINDOW * 2

\* C17: the cleanup runs again and again while the server serves, so every
\* expired cache entry and every stale rate-limiter key is eventually
\* removed, with no further request needed.
C17_StaleDataEventuallyRemoved == StaleData ~> ~StaleData


----------------------------------------------------------------------------
(* A client that has used all but one of its slots, called sequentially *)

MaxBusyCalls == 3
MaxBusyAdmits == 2
BusyTick == 30
MaxTimeBusy == 60

BusyMessages == {"hi", "Why?"}

\* the state after RATE_LIMIT_MAX - 1 admitted calls of one client at time 0
InitBusy ==
    /\ now = 0
    /\ user_requests = [ip \in {DirectCaller.ip} |-> Burst(RATE_LIMIT_MAX - 1, 0)]
    /\ admitted = [ip \in Ips |-> IF ip = DirectCaller.ip
                                  THEN Burst(RATE_LIMIT_MAX - 1, 0) ELSE <<>>]
    /\ user_memory = EmptyDict
    /\ exchanges = [u \in UserIds |-> <<>>]
    /\ response_cache = EmptyDict
    /\ threads = EmptyDict
    /\ last = NoOp
    /\ ncalls = 0

BusyAdmitsLeft ==
    Len(admitted[DirectCaller.ip]) < RATE_LIMIT_MAX - 1 + MaxBusyAdmits

NextBusy ==
    \/ /\ BusyAdmitsLeft
       /\ IsRateLimited(DirectCaller.ip)
    \/ \E m \in BusyMessages :
          /\ BusyAdmitsLeft
          /\ ncalls < MaxBusyCalls
          /\ GetResponse(m, DirectCaller.ip, DirectCaller.uid)
    \/ Tick(BusyTick, MaxTimeBusy)

SpecBusy == InitBusy /\ [][NextBusy]_vars

\* C18: a call rejected by the rate limiter changes nothing but the pruning
\* of expired timestamps: the stored list is the admitted timestamps still
\* inside the window, never more than 30 of them, and a throttled
\* get_response returns the throttling message and leaves the response cache
\* and the user's memory as they were.
C18_RejectedCallOnlyPrunes ==
    LET live(ip, t) == SelectSeq(admitted[ip],
                                 LAMBDA x : t - x < RATE_LIMIT_WINDOW)
        old(ip) == DictGet(last.requestsBefore, ip, <<>>)
    IN
    /\ \A ip \in DOMAIN user_requests : Len(user_requests[ip]) <= RATE_LIMIT_MAX
    /\ (last.op = "is_rate_limited" /\ last.limited) =>
          user_requests[last.ip] = live(last.ip, last.now)
    /\ (IsRequest /\ last.path = "throttled") =>
          /\ last.response = THROTTLE_TEXT
          /\ last.appended = <<>>
          /\ response_cache = last.cacheBefore
          /\ user_memory = last.memoryBefore
          /\ DOMAIN user_requests = DOMAIN last.requestsBefore
          /\ \A ip \in DOMAIN user_requests :
                user_requests[ip] =
                    IF ip = last.ip
                    THEN SelectSeq(old(ip),
                                   LAMBDA x : last.now - x < RATE_LIMIT_WINDOW)
                    ELSE old(ip)

\* C18 witness: a throttled get_response of a client with all 30 slots in
\* use, after an answered request filled the cache and the memory
C18_Witness ==
    /\ last.op = "get_response"
    /\ last.path = "throttled"
    /\ Len(user_requests[last.ip]) = RATE_LIMIT_MAX
    /\ last.uid \in DOMAIN user_memory
    /\ user_memory[last.uid] # <<>>
    /\ response_cache # EmptyDict


----------------------------------------------------------------------------
(* The memory rings with the clear_memory endpoint *)

MaxClearOps == 7

NextClear ==
    \/ \E uid \in UserIds, turn \in MemTurns :
          /\ ncalls < MaxClearOps
          /\ UpdateUserMemory(uid, turn[1], turn[2])
    \/ \E uid \in UserIds :
          /\ ncalls < MaxClearOps
          /\ GetConversationHistory(uid, MEMORY_MAXLEN)
    \/ \E uid \in UserIds :
          /\ ncalls < MaxClearOps
          /\ ClearMemory(uid)

SpecClear == Init /\ [][NextClear]_vars

\* C19: after clear_memory the history of that user reads empty, whatever
\* the ring held before (a full ring, no ring at all); the rings of the other
\* users are what they were; clearing once more changes nothing.
C19_ClearThenHistoryEmpty ==
    last.op = "clear_memory" =>
        /\ \A n \in 1..MEMORY_MAXLEN :
              ConversationHistory(user_memory, last.uid, n) = ""
        /\ DOMAIN user_memory = DOMAIN last.memoryBefore
        /\ \A u \in DOMAIN user_memory :
              u # last.uid => user_memory[u] = last.memoryBefore[u]
        /\ ClearedMemory(user_memory, last.uid) = user_memory
        /\ last.status = (IF last.uid \in DOMAIN last.memoryBefore THEN 200 ELSE 404)

\* C19 witness: a full ring was cleared while another user had exchanges
C19_Witness ==
    /\ last.op = "clear_memory"
    /\ last.uid \in DOMAIN last.memoryBefore
    /\ Len(last.memoryBefore[last.uid]) = MEMORY_MAXLEN
    /\ \E u \in DOMAIN user_memory : u # last.uid /\ user_memory[u] # <<>>


----------------------------------------------------------------------------
(* get_response on messages that ask for a definition *)

MaxDefineCalls == 2

DefineMessages ==
    {"define cat", "tell me about cats", "define it", "What is the problem?",
     "what is of", "cats means", "meaning of life"}

NextDefine ==
    \E m \in DefineMessages :
        /\ ncalls < MaxDefineCalls
        /\ GetResponse(m, DirectCaller.ip, DirectCaller.uid)

SpecDefine == Init /\ [][NextDefine]_vars

\* C20: the word sent to the dictionary is the candidate word the classifier
\* took from the definition-intent match, and that word is neither one of
\* the stopwords the/and/for/you/me/is/are/of/to/in nor 2 or fewer
\* characters long.
C20_LookupIsClassifierCandidate ==
    LET cand == DefinitionCandidate(Strip(Lower(Strip(last.message)))) IN
    (IsRequest /\ last.dictCalls = 1) =>
        /\ cand.some
        /\ last.dictWord = cand.value
        /\ last.dictWord \notin
              {"the", "and", "for", "you", "me", "is", "are", "of", "to", "in"}
        /\ Len(last.dictWord) > 2


----------------------------------------------------------------------------
(* The response cache used by two users *)

MaxIsoCalls == 2

\* the last message has the form of another user's cache key
IsoMessages == {"hi", "27f20669cad5d463:hi"}

IsoResponses == {"Because."}

NextIso ==
    \/ \E m \in IsoMessages, r \in IsoResponses, u \in UserIds :
          /\ ncalls < MaxIsoCalls
          /\ CacheResponse(m, r, u)
    \/ \E m \in IsoMessages, u \in UserIds :
          /\ ncalls < MaxIsoCalls
          /\ GetCachedResponse(m, u)
    \/ \E m \in IsoMessages, c \in Clients :
          /\ ncalls < MaxIsoCalls
          /\ GetResponse(m, c.ip, c.uid)

SpecIso == Init /\ [][NextIso]_vars

\* C22: cache entries are isolated per user: an operation of one user leaves
\* what get_cached_response returns to every other user as it was (nothing
\* stored for A is returned to B, nothing of A is overwritten by B), and the
\* responses get_response can give to a user are the same when the entries
\* of the other users are taken out of the cache.
C22_CacheIsolatedPerUser ==
    LET actor == IF IsRequest THEN last.uid ELSE last.user_id
        before == IF IsRequest THEN last.cacheBefore ELSE last.before
        others == {CacheKey(m, a) : m \in IsoMessages, a \in UserIds \ {actor}}
        without == [k \in DOMAIN before \ others |-> before[k]]
        responses(cache) ==
            {o.response :
                o \in GetResponseOutcomes(last.requestsBefore, last.memoryBefore,
                                          cache, last.now, last.message,
                                          last.ip, last.uid)}
    IN
    /\ last.op \in {"get_response", "cache_response", "get_cached_response"} =>
          \A b \in UserIds \ {actor}, m \in IsoMessages :
              CachedResponse(response_cache, m, b, now)
                  = CachedResponse(before, m, b, last.now)
    /\ last.op = "get_response" =>
          /\ last.response \in responses(without)
          /\ responses(before) = responses(without)

\* C22 witness: a user asks the cache for a message that another user has a
\* live entry for, and gets nothing
C22_Witness ==
    /\ last.op = "get_cached_response"
    /\ ~last.result.some
    /\ \E m \in IsoMessages, a, b \in UserIds :
          /\ a # b
          /\ last.key = CacheKey(m, b)
          /\ CachedResponse(response_cache, m, a, now).some

----------------------------------------------------------------------------
(* is_rate_limited run by concurrent request threads (app.run(threaded=True),
   app.py:540).  The function takes no lock, so the interpreter may switch
   threads between its statements: the read of the clock (line 42), the
   evaluation of the list comprehension (line 43, right-hand side), the
   store of its result (line 43, assignment), the length check (line 45) and
   the append (line 48). *)

ThreadIds == 1..NThreads

Idle == [pc |-> "idle"]

Busy(th) == th \in DOMAIN threads /\ threads[th].pc # "idle"

Quiescent == \A th \in ThreadIds : ~Busy(th)

\* line 42: now = time.time()
RLStart(th, ip) ==
    /\ ~Busy(th)
    /\ ncalls < MaxConcCalls
    /\ ncalls' = ncalls + 1
    /\ threads' = DictSet(threads, th,
                     [pc |-> "filter", ip |-> ip, t |-> now, lst |-> <<>>])
    /\ UNCHANGED <<now, user_requests, user_memory, exchanges, response_cache,
                   admitted, last>>

\* line 43, right-hand side: [t for t in user_requests[user_ip] if ...];
\* the defaultdict read creates the key
RLFilter(th) ==
    /\ Busy(th) /\ threads[th].pc = "filter"
    /\ LET me == threads[th]
           cur == DictGet(user_requests, me.ip, <<>>) IN
       /\ user_requests' = DictSet(user_requests, me.ip, cur)
       /\ threads' = [threads EXCEPT ![th].pc = "store",
                                     ![th].lst = PruneRequests(cur, me.t)]
    /\ UNCHANGED <<now, user_memory, exchanges, response_cache, admitted, last, ncalls>>

\* line 43, assignment: user_requests[user_ip] = <the filtered list>
RLStore(th) ==
    /\ Busy(th) /\ threads[th].pc = "store"
    /\ user_requests' = DictSet(user_requests, threads[th].ip, threads[th].lst)
    /\ threads' = [threads EXCEPT ![th].pc = "check"]
    /\ UNCHANGED <<now, user_memory, exchanges, response_cache, admitted, last, ncalls>>

\* lines 45-46: if len(user_requests[user_ip]) >= RATE_LIMIT_MAX: return True
RLCheck(th) ==
    /\ Busy(th) /\ threads[th].pc = "check"
    /\ LET me == threads[th] IN
       IF Len(user_requests[me.ip]) >= RATE_LIMIT_MAX
       THEN /\ threads' = [threads EXCEPT ![th] = Idle]
            /\ last' = [op |-> "is_rate_limited", ip |-> me.ip, now |-> me.t,
                        limited |-> TRUE]
       ELSE /\ threads' = [threads EXCEPT ![th].pc = "append"]
            /\ UNCHANGED last
    /\ UNCHANGED <<now, user_requests, user_memory, exchanges, response_cache,
                   admitted, ncalls>>

\* lines 48-49: user_requests[user_ip].append(now); return False
RLAppend(th) ==
    /\ Busy(th) /\ threads[th].pc = "append"
    /\ LET me == threads[th] IN
       /\ user_requests' = [user_requests EXCEPT ![me.ip] = Append(@, me.t)]
       /\ admitted' = [admitted EXCEPT ![me.ip] = Append(@, me.t)]
       /\ last' = [op |-> "is_rate_limited", ip |-> me.ip, now |-> me.t,
                   limited |-> FALSE]
    /\ threads' = [threads EXCEPT ![th] = Idle]
    /\ UNCHANGED <<now, user_memory, exchanges, response_cache, ncalls>>

\* the server has so far served no call, or RATE_LIMIT_MAX - 1 sequential
\* calls of one client at time 0
InitConc ==
    /\ now = 0
    /\ \E k \in {0, RATE_LIMIT_MAX - 1} :
          /\ user_requests = IF k = 0 THEN EmptyDict
                             ELSE [ip \in {RLIp} |-> Burst(k, 0)]
          /\ admitted = [ip \in Ips |-> IF ip = RLIp THEN Burst(k, 0) ELSE <<>>]
    /\ user_memory = EmptyDict
    /\ exchanges = [u \in UserIds |-> <<>>]
    /\ response_cache = EmptyDict
    /\ threads = EmptyDict
    /\ last = NoOp
    /\ ncalls = 0

NextConc ==
    \/ \E th \in ThreadIds : RLStart(th, RLIp)
    \/ \E th \in ThreadIds : RLFilter(th)
    \/ \E th \in ThreadIds : RLStore(th)
    \/ \E th \in ThreadIds : RLCheck(th)
    \/ \E th \in ThreadIds : RLAppend(th)
    \/ Tick(RLTick, MaxTimeRL)

SpecConc == InitConc /\ [][NextConc]_vars

\* number of occurrences of value v in sequence s
Occurrences(s, v) == Cardinality({i \in 1..Len(s) : s[i] = v})

\* C2: under every interleaving of concurrent is_rate_limited calls for one
\* client key, the calls admitted with timestamps inside any one window
\* number at most N = 30, and once all calls have returned no admitted
\* timestamp that is still inside the window is missing from the stored list.
C2_ConcurrentCallsAtomic ==
    \A ip \in Ips :
        /\ \A t \in 0..MaxTimeRL : InWindow(admitted[ip], t) <= RATE_LIMIT_MAX
        /\ Quiescent =>
              \A v \in 0..MaxTimeRL :
                  now - v < RATE_LIMIT_WINDOW =>
                      Occurrences(DictGet(user_requests, ip, <<>>), v)
                          >= Occurrences(admitted[ip], v)
----------------------------------------------------------------------------
(* The sweep of the stats endpoint (app.py:425-428) run by one request thread
   while other request threads call cache_response.  The sweep takes no
   lock: the dictionary comprehension iterates over response_cache.items()
   item by item, the interpreter may switch threads between two items, and
   the result is bound to the global name when the iteration is over.  A
   dictionary iterator raises RuntimeError when the dictionary has changed
   size since the iteration began. *)

MaxSweepCalls == 3
SweepTick == 300
MaxTimeSweep == 300

SweepMessages == {"hi", "Why?"}

\* lines 425-428: current_time = time.time(); the iteration begins
StatsStart(th) ==
    /\ Quiescent
    /\ ncalls' = ncalls + 1
    /\ threads' = DictSet(threads, th,
                     [pc |-> "sweep", t |-> now,
                      size |-> Cardinality(DOMAIN response_cache),
                      todo |-> DOMAIN response_cache,
                      built |-> EmptyDict])
    /\ UNCHANGED <<now, user_requests, user_memory, exchanges, response_cache,
                   admitted, last>>

\* line 428: one step of the iterator, or the store of the new dictionary;
\* an uncaught RuntimeError makes the request end with status 500
StatsIterate(th) ==
    /\ Busy(th) /\ threads[th].pc = "sweep"
    /\ LET me == threads[th]
           k == CHOOSE x \in me.todo : TRUE IN
       IF Cardinality(DOMAIN response_cache) # me.size
       THEN /\ threads' = [threads EXCEPT ![th] = [pc |-> "idle", status |-> 500]]
            /\ UNCHANGED response_cache
       ELSE IF me.todo = {}
       THEN /\ response_cache' = me.built
            /\ threads' = [threads EXCEPT ![th] = [pc |-> "idle", status |-> 200]]
       ELSE /\ threads' = [threads EXCEPT
                  ![th].todo = me.todo \ {k},
                  ![th].built =
                      IF me.t - response_cache[k][1] < CACHE_DURATION
                      THEN DictSet(me.built, k, response_cache[k])
                      ELSE me.built]
            /\ UNCHANGED response_cache
    /\ UNCHANGED <<now, user_requests, user_memory, exchanges, admitted, last,
                   ncalls>>

NextSweep ==
    \/ \E th \in ThreadIds :
          /\ ncalls < MaxSweepCalls
          /\ StatsStart(th)
    \/ \E th \in ThreadIds : StatsIterate(th)
    \/ \E m \in SweepMessages :
          /\ ncalls < MaxSweepCalls
          /\ CacheResponse(m, "Because.", DirectCaller.uid)
    \/ Tick(SweepTick, MaxTimeSweep)

SpecSweep == Init /\ [][NextSweep]_vars

\* C21: under every interleaving of a sweep with cache_response calls no
\* sweep fails, and when the sweep has finished the unexpired entry that the
\* latest cache_response wrote is in response_cache.
C21_SweepSafeWithWrites ==
    /\ \A th \in DOMAIN threads :
          "status" \in DOMAIN threads[th] => threads[th].status = 200
    /\ (last.op = "cache_response" /\ Quiescent
            /\ now - last.now < CACHE_DURATION) =>
          /\ last.key \in DOMAIN response_cache
          /\ response_cache[last.key][1] = last.now
====
